---- MODULE Spec2Model ----
(***************************************************************************)
(* A model of prepforinsta: the geometry step of                           *)
(* ImageProcessor.process_image, the two size-constrained JPEG savers      *)
(* (_save_with_size_optimization, "Mode A", and                            *)
(* _save_with_size_and_scale_optimization, "Mode B") and the batch loop    *)
(* of cli.main.                                                            *)
(*                                                                         *)
(* An image is modelled by its pixel dimensions.  The JPEG encoder is an   *)
(* external collaborator: it is modelled as a deterministic but otherwise  *)
(* arbitrary function from (image, quality) to a byte size, whose values   *)
(* are fixed the first time the code asks for them.                        *)
(***************************************************************************)
EXTENDS Integers, Sequences, FiniteSets, TLC

(***************************************************************************)
(* Program constants.                                                      *)
(***************************************************************************)
PORTRAIT_SIZE == [w |-> 1080, h |-> 1350]

LANDSCAPE_MAX_LONG_EDGE == 1350

SQUARE_SIZE == [w |-> 1080, h |-> 1080]

MAX_FILE_SIZE_MB == 8

MAX_FILE_SIZE_BYTES == MAX_FILE_SIZE_MB * 1024 * 1024

\* min_quality of both savers, the upper end of the quality range, and the
\* step by which Mode A lowers the quality.
MIN_QUALITY == 60

MAX_QUALITY == 100

QUALITY_STEP == 5

\* Mode B: the quality of the phase-1 probe, the number of scaling
\* iterations, the smallest side phase 1 scales to, and the fallback quality.
PROBE_QUALITY == 95

MAX_SCALE_ITERATIONS == 5

MIN_SIDE == 100

FALLBACK_QUALITY == 80

(***************************************************************************)
(* Bounds of the model.                                                    *)
(***************************************************************************)
\* Geometry: image sides are 1..MaxSmallDim and the multiples
\* DimStride, 2*DimStride, ..., MaxStrideK*DimStride.
MaxSmallDim == 52

DimStride == 97

MaxStrideK == 45

GeomDims == (1..MaxSmallDim) \cup {DimStride * k : k \in 1..MaxStrideK}

Abs(x) == IF x < 0 THEN -x ELSE x

Max(a, b) == IF a >= b THEN a ELSE b

NoValue == [none |-> TRUE]

(***************************************************************************)
(* Geometry helpers of ImageProcessor.                                     *)
(***************************************************************************)
\* _get_orientation: aspect_ratio = width / height; 0.98 <= r <= 1.02 is
\* "square", else height > width is "portrait", else "landscape".  The
\* double comparison agrees with the exact one for every image whose sides
\* are below 2^40.
GetOrientation_NoUpperBound(w, h) ==
    IF 98 * h <= 100 * w THEN "square"
    ELSE IF h > w THEN "portrait"
    ELSE "landscape"

GetOrientation_Swapped(w, h) ==
    IF 98 * h <= 100 * w /\ 100 * w <= 102 * h THEN "square"
    ELSE IF w > h THEN "portrait"
    ELSE "landscape"

GetOrientation(w, h) ==
    IF 98 * h <= 100 * w /\ 100 * w <= 102 * h THEN "square"
    ELSE IF h > w THEN "portrait"
    ELSE "landscape"

\* _center_crop_to_ratio(img, num/den): int(height * ratio) and
\* int(width / ratio) are the floors of the exact products for 4/5.
CenterCropToRatio(img, num, den) ==
    IF img.w * den > img.h * num
    THEN [w |-> (img.h * num) \div den, h |-> img.h]
    ELSE [w |-> img.w, h |-> (img.w * den) \div num]

\* PIL's Image.thumbnail, called by _resize_to_fit: no change when the image
\* fits; otherwise one side becomes the box's and the other is the floor or
\* the ceiling of the proportional value, whichever keeps the aspect ratio
\* closer, and at least 1.  When both are equally close the comparison of
\* the two doubles decides: both outcomes are possible.
ThumbnailSizes(img, box) ==
    IF box.w >= img.w /\ box.h >= img.h THEN {img}
    ELSE IF box.w * img.h >= box.h * img.w
    THEN LET lo == (box.h * img.w) \div img.h
             hi == IF (box.h * img.w) % img.h = 0 THEN lo ELSE lo + 1
             dlo == Abs(box.h * img.w - lo * img.h)
             dhi == Abs(box.h * img.w - hi * img.h)
             ns == IF dlo < dhi THEN {lo} ELSE IF dhi < dlo THEN {hi} ELSE {lo, hi}
         IN {[w |-> Max(n, 1), h |-> box.h] : n \in ns}
    ELSE LET lo == (box.w * img.h) \div img.w
             hi == IF (box.w * img.h) % img.w = 0 THEN lo ELSE lo + 1
             dlo == Abs(img.w * lo - box.w * img.h) * hi
             dhi == Abs(img.w * hi - box.w * img.h) * lo
             ns == IF lo = 0 THEN {0}
                   ELSE IF dlo < dhi THEN {lo} ELSE IF dhi < dlo THEN {hi} ELSE {lo, hi}
         IN {[w |-> box.w, h |-> Max(n, 1)] : n \in ns}

\* _resize_to_fit: img.thumbnail(max_size).
ResizeToFit_Upscaling(img, box) == {[w |-> box.w, h |-> box.h]}

ResizeToFit(img, box) == ThumbnailSizes(img, box)

(***************************************************************************)
(* int(a * (m / b)) as IEEE-754 doubles compute it, for b > m >= 1.  The   *)
(* quotient m / b is rounded to 53 bits, the product is rounded again and  *)
(* int() truncates.  When a*m/b is no integer the result is its floor.     *)
(* When it is an integer q, the result is q, or q - 1 when the rounded     *)
(* quotient lies below m/b by enough that the product rounds below q.      *)
(***************************************************************************)
RECURSIVE Pow2(_)
Pow2(e) == IF e <= 0 THEN 1 ELSE 2 * Pow2(e - 1)

RECURSIVE Pow2Mod(_, _)
Pow2Mod(k, b) == IF k = 0 THEN 1 % b ELSE (2 * Pow2Mod(k - 1, b)) % b

RECURSIVE ILog2(_)
ILog2(q) == IF q < 2 THEN 0 ELSE 1 + ILog2(q \div 2)

\* The least j with m * 2^j >= b: m/b has the exponent -j.
RECURSIVE BinaryShift(_, _)
BinaryShift(m, b) == IF m >= b THEN 0 ELSE 1 + BinaryShift(2 * m, b)

TruncScaled(a, m, b) ==
    LET q == (a * m) \div b
        j == BinaryShift(m, b)
        \* m * 2^(52+j) = n * b + rem, n the 53-bit significand before rounding
        rem == ((m % b) * Pow2Mod(52 + j, b)) % b
        \* the rounded quotient is m/b + d / (b * 2^(52+j))
        d == IF 2 * rem > b THEN b - rem ELSE 0 - rem
        \* the exact product is q + dd / 2^(52+j)
        dd == (a * d) \div b
        e == ILog2(q)
        half == IF q = Pow2(e) THEN j + e - 2 ELSE j + e - 1
    IN IF (a * m) % b # 0 THEN q
       ELSE IF dd < 0 /\ (half < 0 \/ 0 - dd > Pow2(half)) THEN q - 1
       ELSE q

\* _resize_landscape: the longer side becomes max_long_edge when it exceeds
\* it, the other side int(side * (max_long_edge / longer)).
ResizeLandscape_Nearest(img, m) ==
    IF img.w > img.h
    THEN IF img.w > m
         THEN [w |-> m, h |-> (2 * img.h * m + img.w) \div (2 * img.w)]
         ELSE img
    ELSE IF img.h > m
         THEN [w |-> (2 * img.w * m + img.h) \div (2 * img.h), h |-> m]
         ELSE img

ResizeLandscape(img, m) ==
    IF img.w > img.h
    THEN IF img.w > m
         THEN [w |-> m, h |-> TruncScaled(img.h, m, img.w)]
         ELSE img
    ELSE IF img.h > m
         THEN [w |-> TruncScaled(img.w, m, img.h), h |-> m]
         ELSE img

\* PIL's Image.resize rejects an empty size ("height and width must be > 0").
ResizeRaises(size) == size.w < 1 \/ size.h < 1

(***************************************************************************)
(* State.                                                                  *)
(***************************************************************************)
VARIABLES
    \* process_image (geometry step)
    src,          \* size of the image as loaded
    img,          \* size of the working image
    orientation,  \* the local `orientation`, "none" before it is computed
    transform,    \* which branch of the geometry step ran
    result,       \* the returned dict (orientation, final_size) or NoValue
    pcP,          \* "open", "done" (returned), "error" (raised), "called"
    pass,         \* 1: first run; 2: run on the first run's output
    prev,         \* the first run's result, in the second run
    landOut,      \* output of a direct call of _resize_landscape
    \* _save_with_size_optimization (Mode A)
    start_quality, \* self.start_quality
    quality,      \* the local `quality`
    buffer,       \* the last encoding made: its quality and byte size
    encoded,      \* the encoder's answers so far: quality -> byte size
    outFile,      \* the bytes written to output_path, or NoValue
    retA,         \* the returned quality, or NoValue
    pcA,          \* "loop", "returned"
    \* cli.main
    images,       \* the sorted list find_images returned
    dry_run,      \* --dry-run
    idx,          \* how many images the loop has consumed
    success_count,
    error_count,
    attempted,    \* the images process_image was called on, in call order
    failures,     \* the images whose pipeline raised
    pcM,          \* "start", "loop", "done", "exit1", "dry_done"
    \* _save_with_size_and_scale_optimization (Mode B)
    inputB,       \* size of the image passed in
    max_size_bytes,
    current_img,  \* the sizes the working image went through, the last its own
    iterB,        \* iterations of the scaling loop done
    enc,          \* the encoder's answers so far: image -> (quality -> bytes)
    searched,     \* the image phase 2 searches on, or NoValue
    min_quality,
    max_quality,
    best_quality,
    best_buffer,  \* the best encoding so far (image, quality, size) or NoValue
    outB,         \* the bytes written to output_path, or NoValue
    retB,         \* the returned (quality, image size), or NoValue
    pcB,          \* "scale", "begin", "search", "returned", "raised"
    run,          \* 1: first call; 2: second call on the same image
    first         \* the first call's ceiling and outcome, in the second call

varsP == <<src, img, orientation, transform, result, pcP, pass, prev, landOut>>

varsA == <<start_quality, quality, buffer, encoded, outFile, retA, pcA>>

varsM == <<images, dry_run, idx, success_count, error_count, attempted, failures, pcM>>

varsB == <<inputB, max_size_bytes, current_img, iterB, enc, searched, min_quality,
           max_quality, best_quality, best_buffer, outB, retB, pcB, run, first>>

vars == <<varsP, varsA, varsM, varsB>>

\* The parts of the state a specification does not use stay at these values.
IdleP ==
    /\ src = NoValue /\ img = NoValue /\ orientation = "none" /\ transform = "none"
    /\ result = NoValue /\ pcP = "idle" /\ pass = 0 /\ prev = NoValue
    /\ landOut = NoValue

IdleA ==
    /\ start_quality = 0 /\ quality = 0 /\ buffer = NoValue /\ encoded = <<>>
    /\ outFile = NoValue /\ retA = NoValue /\ pcA = "idle"

IdleM ==
    /\ images = <<>> /\ dry_run = FALSE /\ idx = 0 /\ success_count = 0
    /\ error_count = 0 /\ attempted = <<>> /\ failures = {} /\ pcM = "idle"

IdleB ==
    /\ inputB = NoValue /\ max_size_bytes = 0 /\ current_img = <<>> /\ iterB = 0
    /\ enc = <<>> /\ searched = NoValue /\ min_quality = 0 /\ max_quality = 0
    /\ best_quality = 0 /\ best_buffer = NoValue /\ outB = NoValue
    /\ retB = NoValue /\ pcB = "idle" /\ run = 0 /\ first = NoValue

InitP ==
    /\ src \in [w : GeomDims, h : GeomDims]
    /\ img = src
    /\ orientation = "none"
    /\ transform = "none"
    /\ result = NoValue
    /\ pcP = "open"
    /\ pass = 1
    /\ prev = NoValue
    /\ landOut = NoValue

\* The outcomes of the geometry branch selected by `o`: the sizes the image
\* can take.
GeometryOutcomes(o, image) ==
    IF o = "portrait"
    THEN ResizeToFit(CenterCropToRatio(image, 4, 5), PORTRAIT_SIZE)
    ELSE IF o = "landscape"
    THEN {ResizeLandscape(image, LANDSCAPE_MAX_LONG_EDGE)}
    ELSE ResizeToFit(image, SQUARE_SIZE)

TransformOf(o) ==
    IF o = "portrait" THEN "crop_4_5_fit_1080x1350"
    ELSE IF o = "landscape" THEN "resize_long_edge_1350"
    ELSE "fit_1080x1080"

\* process_image, lines 209-239: classify once, transform by the class,
\* return the class and the final size.  (Colour conversion, sharpening and
\* the save do not change the size.)
ProcessImage ==
    /\ pcP = "open"
    /\ LET o == GetOrientation(img.w, img.h)
       IN /\ orientation' = o
          /\ transform' = TransformOf(o)
          /\ \E out \in GeometryOutcomes(o, img) :
                IF ResizeRaises(out)
                THEN /\ pcP' = "error"
                     /\ UNCHANGED <<img, result>>
                ELSE /\ pcP' = "done"
                     /\ img' = out
                     /\ result' = [orientation |-> o, final_size |-> out]
    /\ UNCHANGED <<src, pass, prev, landOut>>
    /\ UNCHANGED <<varsA, varsM, varsB>>

\* The output file of the first run is processed again.
Reprocess ==
    /\ pcP = "done"
    /\ pass = 1
    /\ pass' = 2
    /\ prev' = result
    /\ src' = img
    /\ orientation' = "none"
    /\ transform' = "none"
    /\ result' = NoValue
    /\ pcP' = "open"
    /\ UNCHANGED <<img, landOut>>
    /\ UNCHANGED <<varsA, varsM, varsB>>

\* _resize_landscape called on its own on the loaded image.
CallResizeLandscape ==
    /\ pcP = "open"
    /\ pass = 1
    /\ LET out == ResizeLandscape(img, LANDSCAPE_MAX_LONG_EDGE)
       IN IF ResizeRaises(out)
          THEN pcP' = "call_raised" /\ UNCHANGED landOut
          ELSE pcP' = "called" /\ landOut' = out
    /\ UNCHANGED <<src, img, orientation, transform, result, pass, prev>>
    /\ UNCHANGED <<varsA, varsM, varsB>>

NextP == ProcessImage \/ Reprocess \/ CallResizeLandscape

InitGeom == InitP /\ IdleA /\ IdleM /\ IdleB

SpecGeom == InitGeom /\ [][NextP]_vars

(***************************************************************************)
(* Claims about the geometry step.                                         *)
(***************************************************************************)
\* The class of a size by the ratio r = width / height alone.
RatioClass(size) ==
    IF 98 * size.h <= 100 * size.w /\ 100 * size.w <= 102 * size.h THEN "square"
    ELSE IF 100 * size.w > 102 * size.h THEN "landscape"
    ELSE "portrait"

\* C5: once process_image has run, the orientation it computed is square iff
\* 0.98 <= r <= 1.02, landscape iff r > 1.02 and portrait iff r < 0.98, for
\* the ratio r of the image as loaded (before any crop or resize); the
\* branch that ran is the one of that class, and the returned orientation
\* is that same value.
C5_OrientationClassifiedOnce ==
    pcP \in {"done", "error"} =>
        /\ (orientation = "square") <=>
              (98 * src.h <= 100 * src.w /\ 100 * src.w <= 102 * src.h)
        /\ (orientation = "landscape") <=> (100 * src.w > 102 * src.h)
        /\ (orientation = "portrait") <=> (100 * src.w < 98 * src.h)
        /\ transform = TransformOf(RatioClass(src))
        /\ pcP = "done" =>
              /\ result.orientation = RatioClass(src)
              /\ result.final_size \in GeometryOutcomes(RatioClass(src), src)

C5_Witness ==
    /\ pcP = "done"
    /\ pass = 1
    /\ orientation = "portrait"
    /\ RatioClass(img) = "square"

\* C6: a portrait image leaves the geometry step with width within one pixel
\* of 4/5 of its height, at most 1080 wide and 1350 high, and no larger than
\* the source in either dimension.
C6_PortraitGeometry ==
    (pcP = "done" /\ result.orientation = "portrait") =>
        /\ Abs(5 * result.final_size.w - 4 * result.final_size.h) <= 5
        /\ result.final_size.w <= PORTRAIT_SIZE.w
        /\ result.final_size.h <= PORTRAIT_SIZE.h
        /\ result.final_size.w <= src.w
        /\ result.final_size.h <= src.h

C6_Witness ==
    /\ pcP = "done"
    /\ pass = 1
    /\ result.orientation = "portrait"
    /\ src.h > PORTRAIT_SIZE.h
    /\ 5 * src.w > 4 * src.h
    /\ 5 * result.final_size.w # 4 * result.final_size.h

\* The longer and the shorter side of a size.
Longer(size) == Max(size.w, size.h)

Shorter(size) == IF size.w >= size.h THEN size.h ELSE size.w

\* C7 as stated: _resize_landscape leaves an image whose longer side is at
\* most 1350 unchanged; otherwise the longer side becomes 1350 and the
\* shorter side is shorter * 1350 / longer rounded to the nearest integer.
C7_LandscapeRoundsToNearest ==
    pcP = "called" =>
        IF Longer(src) > LANDSCAPE_MAX_LONG_EDGE
        THEN /\ Longer(landOut) = LANDSCAPE_MAX_LONG_EDGE
             /\ 2 * Abs(Shorter(landOut) * Longer(src)
                        - Shorter(src) * LANDSCAPE_MAX_LONG_EDGE) <= Longer(src)
        ELSE landOut = src

\* C7 amended: the shorter side is shorter * 1350 / longer truncated, not
\* rounded to nearest: it is the floor of that value, or, only when that
\* value is an integer, possibly one less (a double rounding).  (When the
\* truncated value is 0 the resize raises and there is no output.)
C7_LandscapeTruncates ==
    pcP = "called" =>
        IF Longer(src) > LANDSCAPE_MAX_LONG_EDGE
        THEN LET exact == Shorter(src) * LANDSCAPE_MAX_LONG_EDGE
                 scaledSide == IF src.w > src.h THEN landOut.h ELSE landOut.w
                 fixedSide == IF src.w > src.h THEN landOut.w ELSE landOut.h
             IN /\ fixedSide = LANDSCAPE_MAX_LONG_EDGE
                /\ scaledSide * Longer(src) <= exact
                /\ exact <= (scaledSide + 1) * Longer(src)
                /\ exact % Longer(src) # 0 => exact < (scaledSide + 1) * Longer(src)
        ELSE landOut = src

C7_Witness ==
    /\ pcP = "called"
    /\ src.h > src.w
    /\ src.h > LANDSCAPE_MAX_LONG_EDGE
    /\ 2 * ((src.w * LANDSCAPE_MAX_LONG_EDGE) % src.h) > src.h
    /\ landOut.w = (src.w * LANDSCAPE_MAX_LONG_EDGE) \div src.h
    /\ landOut.h = LANDSCAPE_MAX_LONG_EDGE

\* C8 as stated: the geometry step applied to its own output gives the same
\* orientation and the same dimensions, for every source size.
C8_GeometryIdempotent ==
    (pass = 2 /\ pcP = "done") =>
        /\ result.orientation = prev.orientation
        /\ result.final_size = prev.final_size

\* An output on which the geometry step has nothing left to do: any
\* landscape output, a portrait output of exactly 4:5, a square output that
\* is still within the square band.
StableOutput(r) ==
    \/ r.orientation = "landscape"
    \/ r.orientation = "portrait" /\ 5 * r.final_size.w = 4 * r.final_size.h
    \/ /\ r.orientation = "square"
       /\ 98 * r.final_size.h <= 100 * r.final_size.w
       /\ 100 * r.final_size.w <= 102 * r.final_size.h

\* C8 amended: the second run gives the same orientation and dimensions
\* when the first run's output is a landscape output, a portrait output of
\* exactly 4:5 (such as 1080x1350) or a square output still within the
\* square band.
C8_IdempotentOnStableOutput ==
    (pass = 2 /\ pcP = "done" /\ StableOutput(prev)) =>
        /\ result.orientation = prev.orientation
        /\ result.final_size = prev.final_size

C8_Witness ==
    /\ pass = 2
    /\ pcP = "done"
    /\ prev.orientation = "portrait"
    /\ prev.final_size = PORTRAIT_SIZE
    /\ result.final_size = PORTRAIT_SIZE

(***************************************************************************)
(* Mode A: ImageProcessor._save_with_size_optimization.                    *)
(***************************************************************************)
\* The byte sizes the encoder may answer in Mode A: around the ceiling.
SizeSpread == 1

SizesA == (MAX_FILE_SIZE_BYTES - SizeSpread)..(MAX_FILE_SIZE_BYTES + SizeSpread)

\* --quality is click.IntRange(60, 100).
InitA ==
    /\ start_quality \in MIN_QUALITY..MAX_QUALITY
    /\ quality = start_quality
    /\ buffer = NoValue
    /\ encoded = <<>>
    /\ outFile = NoValue
    /\ retA = NoValue
    /\ pcA = "loop"

\* One iteration of `while quality >= min_quality`: encode, and either write
\* the encoding and return its quality, or lower the quality by 5.
AttemptA ==
    /\ pcA = "loop"
    /\ quality >= MIN_QUALITY
    /\ \E size \in SizesA :
          LET encoding == [quality |-> quality, size |-> size]
          IN /\ buffer' = encoding
             /\ encoded' = (quality :> size) @@ encoded
             /\ IF size <= MAX_FILE_SIZE_BYTES
                THEN /\ outFile' = encoding
                     /\ retA' = quality
                     /\ pcA' = "returned"
                     /\ UNCHANGED quality
                ELSE /\ quality' = quality - QUALITY_STEP
                     /\ UNCHANGED <<outFile, retA, pcA>>
    /\ UNCHANGED start_quality
    /\ UNCHANGED <<varsP, varsM, varsB>>

\* After the loop: the last encoding is written and `quality` is returned.
SaveAnywayA ==
    /\ pcA = "loop"
    /\ quality < MIN_QUALITY
    /\ outFile' = buffer
    /\ retA' = quality
    /\ pcA' = "returned"
    /\ UNCHANGED <<start_quality, quality, buffer, encoded>>
    /\ UNCHANGED <<varsP, varsM, varsB>>

NextA == AttemptA \/ SaveAnywayA

InitModeA == InitA /\ IdleP /\ IdleM /\ IdleB

SpecA == InitModeA /\ [][NextA]_vars

\* The qualities Mode A steps through from the starting quality.
StepsA == {q \in MIN_QUALITY..start_quality : (start_quality - q) % QUALITY_STEP = 0}

FittingA == {q \in StepsA \cap DOMAIN encoded : encoded[q] <= MAX_FILE_SIZE_BYTES}

\* C1: Mode A returns the largest step Q0, Q0-5, ... >= 60 whose encoding is
\* at most 8 MiB and writes that encoding; when no step fits it returns 60
\* and writes the quality-60 encoding, oversized.
C1_ModeAReturnsBestStepOrFloor ==
    pcA = "returned" =>
        IF FittingA # {}
        THEN /\ retA \in FittingA
             /\ \A q \in FittingA : q <= retA
             /\ outFile = [quality |-> retA, size |-> encoded[retA]]
        ELSE /\ retA = MIN_QUALITY
             /\ outFile.quality = MIN_QUALITY
             /\ outFile.size > MAX_FILE_SIZE_BYTES

(***************************************************************************)
(* cli.main: the batch loop.                                               *)
(***************************************************************************)
\* Images are drawn from the names 1..MaxImagePool.
MaxImagePool == 5

RECURSIVE SortedSeq(_)
SortedSeq(S) ==
    IF S = {} THEN <<>>
    ELSE LET m == CHOOSE x \in S : \A y \in S : x <= y
         IN <<m>> \o SortedSeq(S \ {m})

\* find_images returns sorted(set(images)).
InitM ==
    /\ images \in {SortedSeq(S) : S \in SUBSET (1..MaxImagePool)}
    /\ dry_run \in BOOLEAN
    /\ idx = 0
    /\ success_count = 0
    /\ error_count = 0
    /\ attempted = <<>>
    /\ failures = {}
    /\ pcM = "start"

\* main up to the loop: no images is exit status 1, --dry-run lists and
\* returns, otherwise the counters start at 0.
StartMain ==
    /\ pcM = "start"
    /\ pcM' = IF images = <<>> THEN "exit1"
              ELSE IF dry_run THEN "dry_done"
              ELSE "loop"
    /\ UNCHANGED <<images, dry_run, idx, success_count, error_count, attempted, failures>>
    /\ UNCHANGED <<varsP, varsA, varsB>>

\* One iteration of `for img_path in progress_images`: process_image either
\* returns or raises an Exception, which the loop catches.
ProcessNext_AbortOnError ==
    /\ pcM = "loop"
    /\ idx < Len(images)
    /\ attempted' = Append(attempted, images[idx + 1])
    /\ \E raised \in BOOLEAN :
          IF raised
          THEN /\ error_count' = error_count + 1
               /\ failures' = failures \cup {images[idx + 1]}
               /\ idx' = Len(images)
               /\ UNCHANGED success_count
          ELSE /\ success_count' = success_count + 1
               /\ idx' = idx + 1
               /\ UNCHANGED <<error_count, failures>>
    /\ UNCHANGED <<images, dry_run, pcM>>
    /\ UNCHANGED <<varsP, varsA, varsB>>

ProcessNext ==
    /\ pcM = "loop"
    /\ idx < Len(images)
    /\ attempted' = Append(attempted, images[idx + 1])
    /\ idx' = idx + 1
    /\ \E raised \in BOOLEAN :
          IF raised
          THEN /\ error_count' = error_count + 1
               /\ failures' = failures \cup {images[idx + 1]}
               /\ UNCHANGED success_count
          ELSE /\ success_count' = success_count + 1
               /\ UNCHANGED <<error_count, failures>>
    /\ UNCHANGED <<images, dry_run, pcM>>
    /\ UNCHANGED <<varsP, varsA, varsB>>

\* The loop is exhausted: the summary is printed.
Summary ==
    /\ pcM = "loop"
    /\ idx = Len(images)
    /\ pcM' = "done"
    /\ UNCHANGED <<images, dry_run, idx, success_count, error_count, attempted, failures>>
    /\ UNCHANGED <<varsP, varsA, varsB>>

NextM == StartMain \/ ProcessNext \/ Summary

InitBatch == InitM /\ IdleP /\ IdleA /\ IdleB

SpecBatch == InitBatch /\ [][NextM]_vars

\* C4: the loop attempts the images in list order, each once, whatever
\* failed before; when it ends every image has been attempted, the two
\* counters add up to the number of images and error_count is the number of
\* images whose pipeline failed.
C4_BatchFailureIsolation ==
    /\ pcM \in {"loop", "done"} =>
          /\ attempted = SubSeq(images, 1, idx)
          /\ success_count + error_count = idx
          /\ error_count = Cardinality(failures)
    /\ pcM = "done" =>
          /\ attempted = images
          /\ success_count + error_count = Len(images)
          /\ error_count = Cardinality(failures)

C4_Witness ==
    /\ pcM = "done"
    /\ Len(images) >= 3
    /\ images[1] \in failures
    /\ images[3] \notin failures
    /\ error_count = 2
    /\ success_count = Len(images) - 2

(***************************************************************************)
(* Mode B: ImageProcessor._save_with_size_and_scale_optimization.          *)
(***************************************************************************)
\* Input sides are half the minimum side and MIN_SIDE, MIN_SIDE + DimStepB,
\* ..., MIN_SIDE + MaxDimK*DimStepB; the ceiling is 1..MaxCap and an encoding
\* has 1..MaxBytes bytes.  The unit of the byte counts is arbitrary: the code
\* only compares a size with the ceiling and takes their quotient.
DimStepB == 50

MaxDimK == 1

MaxCap == 2

MaxBytes == 3

DimsB == {MIN_SIDE \div 2} \cup {MIN_SIDE + DimStepB * k : k \in 0..MaxDimK}

BytesB == 1..MaxBytes

Qualities == MIN_QUALITY..MAX_QUALITY

\* The size functions of the encoder on one image: one byte size below a
\* breakpoint quality and one from it on, in either order.
SizeTables ==
    {[q \in Qualities |-> s] : s \in BytesB}
    \cup {[q \in Qualities |-> IF q < brk THEN p[1] ELSE p[2]] :
            brk \in (MIN_QUALITY + 1)..MAX_QUALITY,
            p \in {pp \in BytesB \X BytesB : pp[1] # pp[2]}}

Last(seq) == seq[Len(seq)]

\* What the encoder is known to answer for an image.
Known(image) == IF image \in DOMAIN enc THEN enc[image] ELSE <<>>

\* encode_to_buffer(image, q).tell(): the answer given before, or any size.
EncodeSizes(image, q) ==
    IF q \in DOMAIN Known(image) THEN {Known(image)[q]} ELSE BytesB

Learn(image, q, size) == (image :> ((q :> size) @@ Known(image))) @@ enc

\* Image.resize: an image of the new size; of the same size, the same image.
Resized(image, size) == IF size = Last(image) THEN image ELSE Append(image, size)

\* size <= max_size_bytes
Fits_Inverted(size, ceiling) == size >= ceiling

Fits(size, ceiling) == size <= ceiling

\* int(side * scale_factor) for scale_factor = (ceiling / size) ** 0.5 * 0.98:
\* the largest n with n <= side * 0.98 * sqrt(ceiling / size).
ScaledSide(side, ceiling, size) ==
    CHOOSE n \in 0..side :
        /\ n * n * size * 2500 <= side * side * 2401 * ceiling
        /\ (n + 1) * (n + 1) * size * 2500 > side * side * 2401 * ceiling

\* scale_factor >= 0.99, that is ceiling / size >= (0.99 / 0.98) ^ 2
VeryClose(ceiling, size) == ceiling * 9604 >= size * 9801

\* max(100, int(side * scale_factor))
ScaleDown(image, ceiling, size) ==
    [w |-> Max(MIN_SIDE, ScaledSide(Last(image).w, ceiling, size)),
     h |-> Max(MIN_SIDE, ScaledSide(Last(image).h, ceiling, size))]

\* int(side * 0.8) on both sides
FallbackSize(image) ==
    [w |-> (Last(image).w * 4) \div 5, h |-> (Last(image).h * 4) \div 5]

InitB ==
    /\ inputB \in [w : DimsB, h : DimsB]
    /\ max_size_bytes \in 1..MaxCap
    /\ current_img = <<inputB>>
    /\ iterB = 0
    /\ enc = <<>>
    /\ searched = NoValue
    /\ min_quality = MIN_QUALITY
    /\ max_quality = MAX_QUALITY
    /\ best_quality = MIN_QUALITY
    /\ best_buffer = NoValue
    /\ outB = NoValue
    /\ retB = NoValue
    /\ pcB = "scale"
    /\ run = 1
    /\ first = NoValue

\* One iteration of `for _ in range(5)`: encode at quality 95; stop when it
\* fits or the scale factor is at least 0.99, else scale the image down.
ScaleStepB ==
    /\ pcB = "scale"
    /\ iterB < MAX_SCALE_ITERATIONS
    /\ \E size \in EncodeSizes(current_img, PROBE_QUALITY) :
          /\ enc' = Learn(current_img, PROBE_QUALITY, size)
          /\ IF Fits(size, max_size_bytes) \/ VeryClose(max_size_bytes, size)
             THEN /\ pcB' = "begin"
                  /\ UNCHANGED <<current_img, iterB>>
             ELSE /\ current_img' =
                        Resized(current_img, ScaleDown(current_img, max_size_bytes, size))
                  /\ iterB' = iterB + 1
                  /\ pcB' = IF iterB + 1 = MAX_SCALE_ITERATIONS THEN "begin" ELSE "scale"
    /\ UNCHANGED <<inputB, max_size_bytes, searched, min_quality, max_quality,
                   best_quality, best_buffer, outB, retB, run, first>>
    /\ UNCHANGED <<varsP, varsA, varsM>>

\* Lines 347-351: the search starts on the image phase 1 left.  The encoder's
\* size function on that image is fixed here, in agreement with what it
\* has answered for it.
BeginSearchB ==
    /\ pcB = "begin"
    /\ min_quality' = MIN_QUALITY
    /\ max_quality' = MAX_QUALITY
    /\ best_quality' = MIN_QUALITY
    /\ best_buffer' = NoValue
    /\ searched' = current_img
    /\ \E table \in SizeTables :
          /\ \A q \in DOMAIN Known(current_img) : table[q] = Known(current_img)[q]
          /\ enc' = (current_img :> table) @@ enc
    /\ pcB' = "search"
    /\ UNCHANGED <<inputB, max_size_bytes, current_img, iterB, outB, retB, run, first>>
    /\ UNCHANGED <<varsP, varsA, varsM>>

\* while min_quality <= max_quality
SearchContinues_Strict(lo, hi) == lo < hi

SearchContinues(lo, hi) == lo <= hi

\* One iteration of the binary search.
SearchStepB_KeepsLast ==
    /\ pcB = "search"
    /\ SearchContinues(min_quality, max_quality)
    /\ LET mid_quality == (min_quality + max_quality) \div 2
           size == enc[current_img][mid_quality]
       IN /\ best_quality' = mid_quality
          /\ best_buffer' = [image |-> current_img, quality |-> mid_quality,
                             size |-> size]
          /\ IF Fits(size, max_size_bytes)
             THEN /\ min_quality' = mid_quality + 1
                  /\ UNCHANGED max_quality
             ELSE /\ max_quality' = mid_quality - 1
                  /\ UNCHANGED min_quality
    /\ UNCHANGED <<inputB, max_size_bytes, current_img, iterB, enc, searched, outB,
                   retB, pcB, run, first>>
    /\ UNCHANGED <<varsP, varsA, varsM>>

SearchStepB ==
    /\ pcB = "search"
    /\ SearchContinues(min_quality, max_quality)
    /\ LET mid_quality == (min_quality + max_quality) \div 2
           size == enc[current_img][mid_quality]
       IN IF Fits(size, max_size_bytes)
          THEN /\ best_quality' = mid_quality
               /\ best_buffer' = [image |-> current_img, quality |-> mid_quality,
                                  size |-> size]
               /\ min_quality' = mid_quality + 1
               /\ UNCHANGED max_quality
          ELSE /\ max_quality' = mid_quality - 1
               /\ UNCHANGED <<min_quality, best_quality, best_buffer>>
    /\ UNCHANGED <<inputB, max_size_bytes, current_img, iterB, enc, searched, outB,
                   retB, pcB, run, first>>
    /\ UNCHANGED <<varsP, varsA, varsM>>

\* Lines 367-381: write the best encoding; with none, scale by 0.8, encode
\* once at quality 80 and write that, whatever its size.
SaveB ==
    /\ pcB = "search"
    /\ ~SearchContinues(min_quality, max_quality)
    /\ IF best_buffer # NoValue
       THEN /\ outB' = best_buffer
            /\ retB' = [quality |-> best_quality, size |-> Last(current_img)]
            /\ pcB' = "returned"
            /\ UNCHANGED <<current_img, enc, best_quality>>
       ELSE LET smaller == Resized(current_img, FallbackSize(current_img))
            IN IF ResizeRaises(Last(smaller))
               THEN /\ pcB' = "raised"
                    /\ UNCHANGED <<current_img, enc, best_quality, outB, retB>>
               ELSE \E size \in EncodeSizes(smaller, FALLBACK_QUALITY) :
                       /\ enc' = Learn(smaller, FALLBACK_QUALITY, size)
                       /\ current_img' = smaller
                       /\ outB' = [image |-> smaller, quality |-> FALLBACK_QUALITY,
                                   size |-> size]
                       /\ best_quality' = FALLBACK_QUALITY
                       /\ retB' = [quality |-> FALLBACK_QUALITY, size |-> Last(smaller)]
                       /\ pcB' = "returned"
    /\ UNCHANGED <<inputB, max_size_bytes, iterB, searched, min_quality, max_quality,
                   best_buffer, run, first>>
    /\ UNCHANGED <<varsP, varsA, varsM>>

\* The same image is saved again under a ceiling at least as large; the
\* encoder answers as it did.
RerunB ==
    /\ pcB = "returned"
    /\ run = 1
    /\ run' = 2
    /\ first' = [ceiling |-> max_size_bytes, quality |-> retB.quality,
                 searched |-> searched, fallback |-> best_buffer = NoValue]
    /\ max_size_bytes' \in max_size_bytes..MaxCap
    /\ current_img' = <<inputB>>
    /\ iterB' = 0
    /\ searched' = NoValue
    /\ min_quality' = MIN_QUALITY
    /\ max_quality' = MAX_QUALITY
    /\ best_quality' = MIN_QUALITY
    /\ best_buffer' = NoValue
    /\ outB' = NoValue
    /\ retB' = NoValue
    /\ pcB' = "scale"
    /\ UNCHANGED <<inputB, enc>>
    /\ UNCHANGED <<varsP, varsA, varsM>>

NextB == ScaleStepB \/ BeginSearchB \/ SearchStepB \/ SaveB

InitModeB == InitB /\ IdleP /\ IdleA /\ IdleM

SpecB == InitModeB /\ [][NextB]_vars

\* Two calls on one image are followed for square images of at most the
\* minimum side, which phase 1 can only take to the minimum side.
InitRerun == InitModeB /\ inputB.w = inputB.h /\ inputB.w <= MIN_SIDE

NextRerun == NextB \/ RerunB

SpecRerun == InitRerun /\ [][NextRerun]_vars

(***************************************************************************)
(* Claims about Mode A and Mode B.                                         *)
(***************************************************************************)
\* The encoder's size function on the image phase 2 searched.
SearchedSizes == enc[searched]

SomeQualityFits == \E q \in Qualities : SearchedSizes[q] <= max_size_bytes

NonDecreasing(f) == \A p \in Qualities, q \in Qualities : p <= q => f[p] <= f[q]

\* C2 as stated: whatever the encoder's size function, when some quality in
\* [60,100] fits under the ceiling on the image phase 1 left, the bytes
\* written are at most the ceiling.
C2_WrittenFitsForAnyEncoder ==
    (pcB = "returned" /\ SomeQualityFits) => outB.size <= max_size_bytes

\* C2 amended: when the encoded size is non-decreasing in the quality and
\* some quality in [60,100] fits under the ceiling on the image phase 1
\* left, the bytes written are at most the ceiling.
C2_WrittenFitsForMonotoneEncoder ==
    (pcB = "returned" /\ NonDecreasing(SearchedSizes) /\ SomeQualityFits) =>
        outB.size <= max_size_bytes

C2_Witness ==
    /\ pcB = "returned"
    /\ NonDecreasing(SearchedSizes)
    /\ SomeQualityFits
    /\ SearchedSizes[MAX_QUALITY] > max_size_bytes
    /\ Len(searched) > 1
    /\ outB.size <= max_size_bytes

\* C9: when the encoded size is non-decreasing in the quality and some
\* quality in [60,100] fits, the search ends with best_quality the largest
\* fitting quality, returns it, and the file is the encoding made at it.
C9_SearchFindsLargestFittingQuality ==
    (pcB = "returned" /\ NonDecreasing(SearchedSizes) /\ SomeQualityFits) =>
        LET largest == CHOOSE q \in Qualities :
                          /\ SearchedSizes[q] <= max_size_bytes
                          /\ \A r \in Qualities :
                                SearchedSizes[r] <= max_size_bytes => r <= q
        IN /\ best_quality = largest
           /\ retB.quality = largest
           /\ outB = [image |-> searched, quality |-> largest,
                      size |-> SearchedSizes[largest]]

C9_Witness ==
    /\ pcB = "returned"
    /\ NonDecreasing(SearchedSizes)
    /\ SearchedSizes[87] <= max_size_bytes
    /\ SearchedSizes[88] > max_size_bytes
    /\ best_quality = 87
    /\ outB.quality = 87

\* C10: the image Mode B returns is no wider and no higher than the image
\* it was given.
C10_ModeBOnlyScalesDown ==
    pcB = "returned" =>
        /\ retB.size.w <= inputB.w
        /\ retB.size.h <= inputB.h

\* C3 as stated: of two calls on the same image, the one with the larger
\* ceiling never returns the lower quality.
C3_QualityMonotoneInCeiling ==
    (run = 2 /\ pcB = "returned") => retB.quality >= first.quality

\* C3 amended: of two calls on the same image that leave phase 1 with the
\* same image, the first of which does not end in the fallback branch, the
\* one with the larger ceiling never returns the lower quality.
C3_MonotoneOnSameSearchedImage ==
    (run = 2 /\ pcB = "returned" /\ searched = first.searched /\ ~first.fallback) =>
        retB.quality >= first.quality

C3_Witness ==
    /\ run = 2
    /\ pcB = "returned"
    /\ searched = first.searched
    /\ Len(searched) > 1
    /\ ~first.fallback
    /\ max_size_bytes > first.ceiling
    /\ retB.quality > first.quality

====
